---------------------------- MODULE Spec2Model ----------------------------
(***************************************************************************)
(* A model of ClickUpAPI.py: the ClickupClient class, its rate-limited GET *)
(* wrapper, the query construction of get_tasks_100, the pagination loop   *)
(* of get_all_tasks and the _chunkifier helper.                            *)
(*                                                                         *)
(* Strings that the code assembles (URLs, query strings, response bodies)  *)
(* are sequences of tokens, so that "contains" and "in this order" are     *)
(* statements about positions.  Time is the age of a timestamp: the clock  *)
(* moves in steps of Tick seconds and a timestamp is kept as the number of *)
(* seconds that have passed since it was taken.                            *)
(***************************************************************************)
EXTENDS Integers, Sequences, FiniteSets, TLC

VARIABLES
    bucket,       \* limiter.bucket_group: identity -> window of timestamps (by age)
    admitted,     \* history: calls that went past the limiter, by age, last Interval seconds
    pc,           \* per client: where its current _get_wrapper call stands
    req,          \* per client: the url of the current call
    resp,         \* per client: the Response of session.get
    ret,          \* per client: what _get_wrapper returned or raised
    gets,         \* per client: HTTP GETs issued by the current call
    server,       \* the remote task listing: page index -> number of tasks on the page
    gat,          \* get_all_tasks: "none", "fetching", "done" or "raised"
    page_limit,   \* get_all_tasks: its page_limit argument
    kwargs,       \* get_all_tasks: its **kwargs
    page_num,     \* get_all_tasks: local page_num
    tasks,        \* get_all_tasks: local tasks (the accumulator)
    result,       \* get_all_tasks: what the caller received
    requests,     \* history: the pages get_all_tasks asked for, as [page, query]
    locals,       \* get_tasks_100: the arguments of the current call (locals())
    list_to_split,\* _chunkifier: argument
    n,            \* _chunkifier: argument (0 before the call)
    chunks        \* _chunkifier: returned list

vars == <<bucket, admitted, pc, req, resp, ret, gets, server, gat, page_limit,
          kwargs, page_num, tasks, result, requests, locals, list_to_split, n,
          chunks>>

transportVars == <<bucket, admitted, pc, req, resp, ret, gets>>
pagingVars == <<server, gat, page_limit, kwargs, page_num, tasks, result, requests>>
chunkVars == <<list_to_split, n, chunks>>

-----------------------------------------------------------------------------
(* Module-level and class-level constants.                                  *)

RESOURCE_URI == "https://api.clickup.com/api/v2"

\* A quota off by one.
RATE_LIMIT_plus_one == 100 + 1

RATE_LIMIT == 100

\* Duration.MINUTE, the interval of limit_rate, in seconds.
Interval == 60

\* The clock's step: two steps make one interval, so a window can hold
\* timestamps taken at two different times.
Tick == Interval \div 2

Ages == {a \in 0..(Interval - 1) : a % Tick = 0}

\* ClickupClient instances (or threads sharing one).
Clients == {"c1", "c2"}

item == "clickup"

Identities == {item} \cup Clients

\* A limiter of its own for every instance.
LimiterKey_per_instance(c) == c

\* limiter = Limiter(limit_rate) is a class attribute and _get_wrapper is
\* decorated with limiter.ratelimit(item, ...): every instance uses the one
\* bucket named by item.
LimiterKey(c) == item

\* limiter.ratelimit(item) without delay: a full bucket raises.
Delay_off == FALSE

\* delay=True of limiter.ratelimit(item, delay=True).
Delay == TRUE

task_bool_opt == <<"reverse", "subtasks", "include_closed">>

task_list_opt == <<"space_ids", "project_ids", "list_ids", "statuses",
                   "assignees", "tags">>

Range(s) == {s[i] : i \in DOMAIN s}

-----------------------------------------------------------------------------
(* The limiter (pyrate_limiter): a sliding window of timestamps per        *)
(* identity, at most limit_rate.limit of them within limit_rate.interval.  *)

EmptyWindow == [a \in Ages |-> 0]

Count(w) == LET S[A \in SUBSET Ages] ==
                    IF A = {} THEN 0
                    ELSE LET a == CHOOSE x \in A : TRUE IN w[a] + S[A \ {a}]
            IN S[Ages]

\* The window after Tick seconds: every timestamp is Tick older, and those
\* that reach Interval leave the window.
Advance(w) == [a \in Ages |-> IF a = 0 THEN 0 ELSE w[a - Tick]]

Put(w) == [w EXCEPT ![0] = @ + 1]

\* Limiter.try_acquire succeeds iff the bucket holds fewer than limit
\* timestamps of the last interval.
HasRoom(b, key) == Count(b[key]) < RATE_LIMIT

-----------------------------------------------------------------------------
(* Response bodies: JSON texts of the one shape the model needs, an object *)
(* with one key whose value is a list.                                     *)

JsonList(xs) == [i \in 1..(2 * Len(xs) - 1) |->
                    IF i % 2 = 1 THEN xs[(i + 1) \div 2] ELSE ","]

JsonDumps(key, xs) == <<"{", key, ":", "[">>
                      \o (IF xs = <<>> THEN <<>> ELSE JsonList(xs))
                      \o <<"]", "}">>

NoJson == [key |-> "", val |-> <<>>]

\* Response.json()
JsonLoads(text) == [key |-> text[2],
                    val |-> [i \in 1..((Len(text) - 5) \div 2) |-> text[3 + 2 * i]]]

NoResponse == [status_code |-> 0, text |-> <<>>]

NoReturn == [kind |-> "none", code |-> 0, value |-> NoJson]

FailureCodes == {204, 404}


-----------------------------------------------------------------------------
(* The remote service.                                                      *)

MaxPage == 3

Pages == 0..MaxPage

\* How many tasks a page of the listing may hold.
TaskCounts == {0, 2}

\* The tasks of page i of the listing; a page past the end of the data is
\* empty.
PageTasks(i) == IF i \in Pages
                THEN [j \in 1..server[i] |-> "t" \o ToString(i) \o "." \o ToString(j)]
                ELSE <<>>

\* int() of a decimal string, for the page indices the model uses.
ParseInt(s) == CHOOSE k \in 0..(MaxPage + 2) : ToString(k) = s

IsTaskRequest(url) == \E i \in 1..Len(url) : url[i] = "/task?"

\* The value of the page parameter of a task request.
PageOf(url) ==
    LET at == {j \in 1..(Len(url) - 2) : url[j] = "page" /\ url[j + 1] = "="}
    IN IF at = {} THEN 0 ELSE ParseInt(url[(CHOOSE j \in at : TRUE) + 2])

Failures == {[status_code |-> s, text |-> JsonDumps("err", <<>>)] : s \in FailureCodes}

\* What the service may answer to a GET of url.
ServerResponses(url) ==
    IF IsTaskRequest(url)
    THEN {[status_code |-> 200, text |-> JsonDumps("tasks", PageTasks(PageOf(url)))]}
         \cup Failures
    ELSE {[status_code |-> 200, text |-> JsonDumps("user", <<"u1">>)]} \cup Failures

-----------------------------------------------------------------------------
(* ClickupClient                                                            *)

LStrip(endpoint) ==
    LET F[i \in 1..(Len(endpoint) + 1)] ==
            IF i > Len(endpoint) THEN <<>>
            ELSE IF endpoint[i] = "/" THEN F[i + 1]
            ELSE SubSeq(endpoint, i, Len(endpoint))
    IN F[1]

_construct_endpoint(endpoint) ==
    IF endpoint # <<>> /\ Head(endpoint) \in {"http://", "https://"}
    THEN endpoint
    ELSE <<RESOURCE_URI, "/">> \o LStrip(endpoint)

_get_wrapper_raise_from_400(r) ==
    IF r.status_code >= 400
    THEN [kind |-> "ValueError", code |-> r.status_code, value |-> NoJson]
    ELSE [kind |-> "return", code |-> 0, value |-> JsonLoads(r.text)]

\* The body of _get_wrapper once session.get has answered with r.
_get_wrapper(r) ==
    IF r.status_code # 200
    THEN [kind |-> "ValueError", code |-> r.status_code, value |-> NoJson]
    ELSE [kind |-> "return", code |-> 0, value |-> JsonLoads(r.text)]

\* A call of _get_wrapper(url) by client c: the limiter's decorator runs
\* first (delayed_acquire: try_acquire, and when the bucket is full either
\* wait, with delay, or raise BucketFullException).
CallGetWrapper(c, url) ==
    /\ pc[c] \in {"idle", "returned"}
    /\ req' = [req EXCEPT ![c] = url]
    /\ gets' = [gets EXCEPT ![c] = 0]
    /\ resp' = [resp EXCEPT ![c] = NoResponse]
    /\ LET key == LimiterKey(c)
       IN IF HasRoom(bucket, key)
          THEN /\ bucket' = [bucket EXCEPT ![key] = Put(@)]
               /\ admitted' = Put(admitted)
               /\ pc' = [pc EXCEPT ![c] = "admitted"]
               /\ ret' = [ret EXCEPT ![c] = NoReturn]
          ELSE /\ UNCHANGED <<bucket, admitted>>
               /\ IF Delay
                  THEN /\ pc' = [pc EXCEPT ![c] = "delayed"]
                       /\ ret' = [ret EXCEPT ![c] = NoReturn]
                  ELSE /\ pc' = [pc EXCEPT ![c] = "returned"]
                       /\ ret' = [ret EXCEPT ![c] =
                                    [kind |-> "BucketFullException", code |-> 0,
                                     value |-> NoJson]]

\* A delayed call tries again after its sleep and is admitted once the
\* window has room.
DelayedAcquire(c) ==
    /\ pc[c] = "delayed"
    /\ HasRoom(bucket, LimiterKey(c))
    /\ bucket' = [bucket EXCEPT ![LimiterKey(c)] = Put(@)]
    /\ admitted' = Put(admitted)
    /\ pc' = [pc EXCEPT ![c] = "admitted"]
    /\ UNCHANGED <<req, resp, ret, gets>>

\* resp = self.session.get(url), the status check and the return.
Get(c) ==
    /\ pc[c] = "admitted"
    /\ \E r \in ServerResponses(req[c]) :
          /\ resp' = [resp EXCEPT ![c] = r]
          /\ ret' = [ret EXCEPT ![c] = _get_wrapper(r)]
    /\ gets' = [gets EXCEPT ![c] = @ + 1]
    /\ pc' = [pc EXCEPT ![c] = "returned"]
    /\ UNCHANGED <<bucket, admitted, req>>

\* Time passes.
TickClock ==
    /\ bucket' = [k \in Identities |-> Advance(bucket[k])]
    /\ admitted' = Advance(admitted)
    /\ UNCHANGED <<pc, req, resp, ret, gets>>

\* get_user: url = self._construct_endpoint("/user"); self._get_wrapper(url)
get_user(c) ==
    /\ CallGetWrapper(c, _construct_endpoint(<<"/", "user">>))
    /\ UNCHANGED <<pagingVars, locals, chunkVars>>

-----------------------------------------------------------------------------
(* Python values, tagged with their type, and the query construction of    *)
(* get_tasks_100.  A dict is a sequence of <<key, value>> pairs in          *)
(* insertion order.                                                         *)

None == <<"None">>
PyBool(b) == <<"bool", b>>
PyInt(i) == <<"int", i>>
PyStr(x) == <<"str", x>>
PyList(xs) == <<"list", xs>>

IsNone(v) == v[1] = "None"

\* bool(v)
Truthy(v) ==
    CASE v[1] = "None" -> FALSE
      [] v[1] = "bool" -> v[2]
      [] v[1] = "int" -> v[2] # 0
      [] v[1] = "str" -> v[2] # ""
      [] v[1] = "list" -> v[2] # <<>>

\* str(v), for the values a query is built from.
Str(v) ==
    CASE v[1] = "None" -> "None"
      [] v[1] = "bool" -> (IF v[2] THEN "True" ELSE "False")
      [] v[1] = "int" -> ToString(v[2])
      [] v[1] = "str" -> v[2]

\* str.lower(), for the strings the model meets.
Lower(x) ==
    CASE x = "True" -> "true"
      [] x = "False" -> "false"
      [] x = "None" -> "none"
      [] OTHER -> x

\* sep.join(parts), parts being token sequences.
Join(parts, sep) ==
    LET F[i \in 0..Len(parts)] ==
            IF i = 0 THEN <<>>
            ELSE IF i = 1 THEN parts[1]
            ELSE F[i - 1] \o <<sep>> \o parts[i]
    IN F[Len(parts)]

\* The pairs of d at the indices in keep, in the order of d.
SelectPairs(d, keep) ==
    LET F[i \in 0..Len(d)] ==
            IF i = 0 THEN <<>>
            ELSE IF i \in keep THEN Append(F[i - 1], d[i]) ELSE F[i - 1]
    IN F[Len(d)]

_arg_filter_truthy(locs, opt_exclude) ==
    LET excluder == {"self", "kwargs"} \cup opt_exclude
    IN SelectPairs(locs, {i \in 1..Len(locs) :
                            locs[i][1] \notin excluder /\ Truthy(locs[i][2])})

_arg_filter(locs, opt_exclude) ==
    LET excluder == {"self", "kwargs"} \cup opt_exclude
    IN SelectPairs(locs, {i \in 1..Len(locs) :
                            locs[i][1] \notin excluder /\ ~IsNone(locs[i][2])})

\* The parameters of get_tasks_100 after team_id, in declaration order.
Params == <<"page", "order_by", "reverse", "subtasks", "space_ids",
            "project_ids", "list_ids", "statuses", "include_closed", "tags",
            "assignees", "due_date_gt", "due_date_lt", "date_created_gt",
            "date_created_lt", "date_updated_gt", "date_updated_lt">>

Default(p) == IF p = "include_closed" THEN PyBool(FALSE) ELSE None

\* locals() at the first line of get_tasks_100, called with team_id and the
\* keyword arguments given (a function from some parameter names to values).
Locals(team_id, given) ==
    <<<<"self", PyStr("self")>>, <<"team_id", PyStr(team_id)>>>>
    \o [i \in 1..Len(Params) |->
            <<Params[i], IF Params[i] \in DOMAIN given THEN given[Params[i]]
                         ELSE Default(Params[i])>>]

\* for i in self.task_bool_opt: if i in args: args[i] = str(args[i]).lower()
LowerBools(args) ==
    [i \in 1..Len(args) |->
        IF args[i][1] \in Range(task_bool_opt)
        THEN <<args[i][1], PyStr(Lower(Str(args[i][2])))>>
        ELSE args[i]]

\* One element of query_list.
Fragment(kv) ==
    IF kv[1] \in Range(task_list_opt)
    THEN Join([k \in 1..Len(kv[2][2]) |-> <<kv[1], "[]=", Str(kv[2][2][k])>>], "&")
    ELSE <<kv[1], "=", Str(kv[2])>>

\* query_string of get_tasks_100 for its locals().
QueryString(locs) ==
    LET args == LowerBools(_arg_filter(locs, {"team_id"}))
        query_list == [i \in 1..Len(args) |-> Fragment(args[i])]
    IN Join(query_list, "&")

TaskPath(team_id) == <<"/", "team/", team_id, "/task?">>

\* get_tasks_100(team_id, **given) by client c: build the url and call
\* _get_wrapper.
get_tasks_100(c, team_id, given) ==
    /\ locals' = Locals(team_id, given)
    /\ CallGetWrapper(c, _construct_endpoint(
            TaskPath(team_id) \o QueryString(Locals(team_id, given))))

-----------------------------------------------------------------------------
(* _chunkifier                                                              *)

\* len(range(start, stop, step)) for a positive step.
RangeLen(start, stop, step) ==
    IF stop <= start THEN 0 ELSE (stop - start + step - 1) \div step

\* xs[i:j] for 0 <= i <= j (indices from 0, j clipped to len(xs)).
Slice(xs, i, j) == SubSeq(xs, i + 1, IF j < Len(xs) THEN j ELSE Len(xs))

_chunkifier_drop_remainder(xs, size) ==
    [k \in 1..(Len(xs) \div size) |-> Slice(xs, (k - 1) * size, (k - 1) * size + size)]

\* [list_to_split[i:i+n] for i in range(0, len(list_to_split), n)]
_chunkifier(xs, size) ==
    [k \in 1..RangeLen(0, Len(xs), size) |->
        Slice(xs, (k - 1) * size, (k - 1) * size + size)]

-----------------------------------------------------------------------------
(* get_all_tasks                                                            *)

\* chunk['tasks']
ChunkTasks(chunk) == CASE chunk.key = "tasks" -> chunk.val

\* The keyword arguments of get_tasks_100(page=page_num, **kwargs).
WithPage(kw, pn) ==
    [p \in (DOMAIN kw) \cup {"page"} |-> IF p = "page" THEN PyInt(pn) ELSE kw[p]]

PageUrl(kw, pn) ==
    _construct_endpoint(TaskPath(kw.team_id[2])
                        \o QueryString(Locals(kw.team_id[2], WithPage(kw, pn))))

LoopStep_inclusive_limit(chunk, pl, pn, ts) ==
    IF ChunkTasks(chunk) # <<>> /\ (pl < 0 \/ pn <= pl)
    THEN [page_num |-> pn + 1, tasks |-> Append(ts, chunk), fetch |-> TRUE]
    ELSE [page_num |-> pn, tasks |-> ts, fetch |-> FALSE]

LoopStep_no_limit(chunk, pl, pn, ts) ==
    IF ChunkTasks(chunk) # <<>>
    THEN [page_num |-> pn + 1, tasks |-> Append(ts, chunk), fetch |-> TRUE]
    ELSE [page_num |-> pn, tasks |-> ts, fetch |-> FALSE]

LoopStep_keep_last(chunk, pl, pn, ts) ==
    IF ChunkTasks(chunk) # <<>> /\ (pl < 0 \/ pn < pl)
    THEN [page_num |-> pn + 1, tasks |-> Append(ts, chunk), fetch |-> TRUE]
    ELSE [page_num |-> pn,
          tasks |-> IF ChunkTasks(chunk) # <<>> THEN Append(ts, chunk) ELSE ts,
          fetch |-> FALSE]

\* One evaluation of the while condition with the chunk just fetched and,
\* when it holds, the body up to the next get_tasks_100 call.
LoopStep(chunk, pl, pn, ts) ==
    IF ChunkTasks(chunk) # <<>> /\ (pl < 0 \/ pn < pl)
    THEN [page_num |-> pn + 1, tasks |-> Append(ts, chunk), fetch |-> TRUE]
    ELSE [page_num |-> pn, tasks |-> ts, fetch |-> FALSE]

OnFailure_partial(ts, exc) == [kind |-> "return", pages |-> ts, exc |-> NoReturn]

\* get_all_tasks has no try: an exception of get_tasks_100 leaves it at
\* once and the accumulator is dropped.
OnFailure(ts, exc) == [kind |-> "raise", pages |-> <<>>, exc |-> exc]

\* get_all_tasks(page_limit=pl, **kw) up to its first get_tasks_100 call.
get_all_tasks(c, pl, kw) ==
    /\ gat = "none"
    /\ page_limit' = pl
    /\ kwargs' = kw
    /\ page_num' = 0
    /\ tasks' = <<>>
    /\ gat' = "fetching"
    /\ requests' = <<PageUrl(kw, 0)>>
    /\ get_tasks_100(c, kw.team_id[2], WithPage(kw, 0))
    /\ UNCHANGED <<server, result>>

\* get_tasks_100 has returned (or raised) inside get_all_tasks.
GetAllTasksLoop(c) ==
    /\ gat = "fetching"
    /\ pc[c] = "returned"
    /\ IF ret[c].kind # "return"
       THEN /\ gat' = "raised"
            /\ result' = OnFailure(tasks, ret[c])
            /\ UNCHANGED <<transportVars, locals, server, page_limit, kwargs,
                           page_num, tasks, requests>>
       ELSE LET st == LoopStep(ret[c].value, page_limit, page_num, tasks)
            IN /\ page_num' = st.page_num
               /\ tasks' = st.tasks
               /\ UNCHANGED <<server, page_limit, kwargs>>
               /\ IF st.fetch
                  THEN /\ requests' = Append(requests, PageUrl(kwargs, st.page_num))
                       /\ get_tasks_100(c, kwargs.team_id[2],
                                        WithPage(kwargs, st.page_num))
                       /\ UNCHANGED <<gat, result>>
                  ELSE /\ gat' = "done"
                       /\ result' = [kind |-> "return", pages |-> st.tasks,
                                     exc |-> NoReturn]
                       /\ UNCHANGED <<transportVars, locals, requests>>

\* get_task: url = self._construct_endpoint(f"/task/{task_id}")
get_task(c, task_id) ==
    /\ CallGetWrapper(c, _construct_endpoint(<<"/", "task/", task_id>>))
    /\ UNCHANGED <<pagingVars, locals, chunkVars>>

NoLocals == <<>>

NoKwargs == [team_id |-> None]

NoResult == [kind |-> "none", pages |-> <<>>, exc |-> NoReturn]

Init ==
    /\ bucket = [k \in Identities |-> EmptyWindow]
    /\ admitted = EmptyWindow
    /\ pc = [c \in Clients |-> "idle"]
    /\ req = [c \in Clients |-> <<>>]
    /\ resp = [c \in Clients |-> NoResponse]
    /\ ret = [c \in Clients |-> NoReturn]
    /\ gets = [c \in Clients |-> 0]
    /\ server = [i \in Pages |-> 0]
    /\ gat = "none"
    /\ page_limit = -1
    /\ kwargs = NoKwargs
    /\ page_num = 0
    /\ tasks = <<>>
    /\ result = NoResult
    /\ requests = <<>>
    /\ locals = NoLocals
    /\ list_to_split = <<>>
    /\ n = 0
    /\ chunks = <<>>

\* Several clients calling endpoint methods in any interleaving.
Next ==
    \/ \E c \in Clients : get_user(c)
    \/ \E c \in Clients : get_task(c, "t0.1")
    \/ \E c \in Clients : DelayedAcquire(c) /\ UNCHANGED <<pagingVars, locals, chunkVars>>
    \/ \E c \in Clients : Get(c) /\ UNCHANGED <<pagingVars, locals, chunkVars>>
    \/ TickClock /\ UNCHANGED <<pagingVars, locals, chunkVars>>

Spec == Init /\ [][Next]_vars

\* One caller issuing its calls one after the other.  Time passes, and a
\* caller sleeping in the limiter wakes up and tries again.
Caller == "c1"

SeqNext ==
    \/ get_user(Caller)
    \/ get_task(Caller, "t0.1")
    \/ DelayedAcquire(Caller) /\ UNCHANGED <<pagingVars, locals, chunkVars>>
    \/ Get(Caller) /\ UNCHANGED <<pagingVars, locals, chunkVars>>
    \/ TickClock /\ UNCHANGED <<pagingVars, locals, chunkVars>>

SeqSpec ==
    /\ Init
    /\ [][SeqNext]_vars
    /\ WF_vars(TickClock /\ UNCHANGED <<pagingVars, locals, chunkVars>>)
    /\ WF_vars(DelayedAcquire(Caller) /\ UNCHANGED <<pagingVars, locals, chunkVars>>)

-----------------------------------------------------------------------------
(* Claims about the limiter and _get_wrapper.                               *)

\* C1: whatever the sequence of _get_wrapper calls, at every time the number
\* of calls admitted within the trailing 60 seconds is at most 100.
C1_RateBound == Count(admitted) <= 100

\* A full window made of admissions at two different times, with a further
\* call held back.
C1_Witness ==
    /\ Count(admitted) = 100
    /\ \A a \in Ages : admitted[a] > 0
    /\ \E c \in Clients : pc[c] = "delayed"

\* C2: the limiter delays and never rejects: a call is admitted at once
\* while fewer than 100 calls lie in the window and is suspended otherwise,
\* no call ends with the limiter's exception, and a suspended call is
\* eventually admitted.
C2_DelayPolicy ==
    /\ [][\A c \in Clients :
            (pc[c] \in {"idle", "returned"} /\ pc'[c] # pc[c]) =>
                IF Count(admitted) < 100
                THEN pc'[c] = "admitted"
                ELSE pc'[c] = "delayed"]_vars
    /\ [](\A c \in Clients : ret[c].kind # "BucketFullException")
    /\ \A c \in Clients : (pc[c] = "delayed") ~> (pc[c] = "admitted")

\* 100 calls were admitted at the same instant and the 101st is suspended.
C2_Witness ==
    /\ admitted[0] = 100
    /\ pc[Caller] = "delayed"

\* C3: one budget for all instances: the bucket named by item holds exactly
\* one slot for every call admitted from any client in the last 60 seconds
\* (whatever the HTTP result), no instance has a bucket of its own, and the
\* combined count never exceeds 100.
C3_SharedBudget ==
    /\ bucket[item] = admitted
    /\ \A c \in Clients : bucket[c] = EmptyWindow
    /\ Count(bucket[item]) <= 100

\* Two clients have both been admitted into a full shared window; one got
\* a 200 and the other did not.
C3_Witness ==
    /\ Count(admitted) = 100
    /\ \E c, d \in Clients :
          /\ c # d
          /\ pc[c] = "returned" /\ ret[c].kind = "return"
          /\ pc[d] = "returned" /\ ret[d].kind = "ValueError"

-----------------------------------------------------------------------------
(* get_tasks_100 called once, with keyword arguments drawn from Givens.     *)

Givens ==
    [page : {None, PyInt(0), PyInt(3)},
     order_by : {None, PyStr("id")},
     reverse : {None, PyBool(TRUE), PyBool(FALSE)},
     subtasks : {None, PyBool(TRUE)},
     include_closed : {PyBool(FALSE), None, PyBool(TRUE)},
     tags : {None, PyList(<<>>), PyList(<<PyStr("a"), PyStr("b")>>),
             PyList(<<PyStr("b"), PyStr("a")>>)},
     statuses : {None, PyList(<<PyStr("open")>>)},
     list_ids : {None, PyList(<<PyInt(7), PyInt(8)>>)},
     due_date_gt : {None, PyInt(5)}]

TeamId == "9"

QueryNext ==
    \/ /\ locals = NoLocals
       /\ \E given \in Givens : get_tasks_100(Caller, TeamId, given)
       /\ UNCHANGED <<pagingVars, chunkVars>>
    \/ Get(Caller) /\ UNCHANGED <<pagingVars, locals, chunkVars>>

QuerySpec == Init /\ [][QueryNext]_vars

\* The query part of a task url.
QueryOf(url) ==
    LET i == CHOOSE j \in 1..Len(url) : url[j] = "/task?"
    IN SubSeq(url, i + 1, Len(url))

Positions(qs, tok) == {i \in 1..Len(qs) : qs[i] = tok}

Min(S) == CHOOSE x \in S : \A y \in S : x <= y

SumSeq(xs) ==
    LET F[i \in 0..Len(xs)] == IF i = 0 THEN 0 ELSE F[i - 1] + xs[i]
    IN F[Len(xs)]

\* The number of "&" the claim predicts for the arguments locs: one between
\* two fragments, one between two elements of an array.
ExpectedAmps(locs) ==
    LET set == {i \in 3..Len(locs) : locs[i][2][1] # "None"}
        inner == [i \in 1..Len(locs) |->
                    IF locs[i][2][1] = "list" /\ Len(locs[i][2][2]) > 1
                    THEN Len(locs[i][2][2]) - 1 ELSE 0]
    IN (IF set = {} THEN 0 ELSE Cardinality(set) - 1) + SumSeq(inner)

\* C8: the query of get_tasks_100 has no fragment for team_id or for an
\* argument that is None; a boolean argument appears once as name=true or
\* name=false; an array argument appears as name[]=e1&name[]=e2... with the
\* elements in the caller's order; any other argument appears once as
\* name=value; and the fragments are joined by "&".
C8_QueryEncoding ==
    locals # NoLocals =>
        LET qs == QueryOf(req[Caller])
        IN /\ Positions(qs, "team_id") = {}
           /\ Positions(qs, "self") = {}
           /\ Cardinality(Positions(qs, "&")) = ExpectedAmps(locals)
           /\ \A i \in 3..Len(locals) :
                LET p == locals[i][1]
                    v == locals[i][2]
                    P == Positions(qs, p)
                IN CASE v[1] = "None" -> P = {}
                     [] v[1] = "bool" ->
                          \E j \in 1..Len(qs) :
                              /\ P = {j}
                              /\ qs[j + 1] = "="
                              /\ qs[j + 2] = (IF v[2] THEN "true" ELSE "false")
                     [] v[1] = "list" ->
                          /\ Cardinality(P) = Len(v[2])
                          /\ \A k \in 1..Len(v[2]) :
                                LET j == Min(P) + 4 * (k - 1)
                                IN /\ j \in P
                                   /\ qs[j + 1] = "[]="
                                   /\ qs[j + 2] = (IF v[2][k][1] = "int"
                                                   THEN ToString(v[2][k][2])
                                                   ELSE v[2][k][2])
                                   /\ k < Len(v[2]) => qs[j + 3] = "&"
                     [] OTHER ->
                          \E j \in 1..Len(qs) :
                              /\ P = {j}
                              /\ qs[j + 1] = "="
                              /\ qs[j + 2] = (IF v[1] = "int" THEN ToString(v[2]) ELSE v[2])

\* The example of the specification: reverse True, tags [a, b], statuses
\* None and page 3 (include_closed at its default).
C8_Witness ==
    /\ pc[Caller] = "returned"
    /\ locals = Locals(TeamId, [reverse |-> PyBool(TRUE),
                                tags |-> PyList(<<PyStr("a"), PyStr("b")>>),
                                statuses |-> None,
                                page |-> PyInt(3)])
    /\ QueryOf(req[Caller]) =
          <<"page", "=", "3", "&", "reverse", "=", "true", "&",
            "include_closed", "=", "false", "&",
            "tags", "[]=", "a", "&", "tags", "[]=", "b">>

-----------------------------------------------------------------------------
(* get_all_tasks called once by one client, against a listing of at most   *)
(* MaxPage + 1 pages, starting with the window empty or one call short of  *)
(* full.                                                                    *)

AlmostFull == [a \in Ages |-> IF a = 0 THEN RATE_LIMIT - 1 ELSE 0]

KwargSets ==
    {[team_id |-> PyStr(TeamId)],
     [team_id |-> PyStr(TeamId), reverse |-> PyBool(TRUE),
      tags |-> PyList(<<PyStr("a"), PyStr("b")>>)]}

PagingInit ==
    /\ \E w \in {EmptyWindow, AlmostFull} :
          /\ bucket = [k \in Identities |-> IF k = item THEN w ELSE EmptyWindow]
          /\ admitted = w
    /\ pc = [c \in Clients |-> "idle"]
    /\ req = [c \in Clients |-> <<>>]
    /\ resp = [c \in Clients |-> NoResponse]
    /\ ret = [c \in Clients |-> NoReturn]
    /\ gets = [c \in Clients |-> 0]
    /\ server \in [Pages -> TaskCounts]
    /\ gat = "none"
    /\ page_limit = -1
    /\ kwargs = NoKwargs
    /\ page_num = 0
    /\ tasks = <<>>
    /\ result = NoResult
    /\ requests = <<>>
    /\ locals = NoLocals
    /\ list_to_split = <<>>
    /\ n = 0
    /\ chunks = <<>>

PagingNext ==
    \/ \E pl \in -1..(MaxPage + 1), kw \in KwargSets :
          get_all_tasks(Caller, pl, kw) /\ UNCHANGED chunkVars
    \/ GetAllTasksLoop(Caller) /\ UNCHANGED chunkVars
    \/ DelayedAcquire(Caller) /\ UNCHANGED <<pagingVars, locals, chunkVars>>
    \/ Get(Caller) /\ UNCHANGED <<pagingVars, locals, chunkVars>>
    \/ TickClock /\ UNCHANGED <<pagingVars, locals, chunkVars>>

PagingSpec == PagingInit /\ [][PagingNext]_vars

\* The page the service holds at index i, as get_tasks_100 returns it.
ServerPage(i) == [key |-> "tasks", val |-> PageTasks(i)]

\* C4: with a page limit L >= 0 and a non-empty page at every index asked
\* for, get_all_tasks makes at most L + 1 page requests and returns exactly
\* L pages.
C4_PageLimit ==
    (/\ gat = "done"
     /\ page_limit >= 0
     /\ \A i \in 0..page_limit : PageTasks(i) # <<>>)
    => /\ Len(requests) <= page_limit + 1
       /\ result.kind = "return"
       /\ Len(result.pages) = page_limit

\* The example of the specification: limit 2, three requests, two pages.
C4_Witness ==
    /\ gat = "done"
    /\ page_limit = 2
    /\ \A i \in 0..2 : PageTasks(i) # <<>>
    /\ Len(requests) = 3
    /\ Len(result.pages) = 2

\* C5: the requests go to the indices 0, 1, 2, ... in turn and differ in
\* nothing but the page; the accumulator always holds the pages 0..k-1 of
\* the service in order, all non-empty and no more than a non-negative
\* page_limit; and the run ends with exactly these pages, k being the first
\* index whose page is empty or that equals page_limit.
C5_StateMachine ==
    /\ \A k \in 1..Len(requests) :
          LET q == QueryOf(requests[k])
              q1 == QueryOf(requests[1])
          IN /\ SubSeq(q, 1, 3) = <<"page", "=", ToString(k - 1)>>
             /\ SubSeq(q, 4, Len(q)) = SubSeq(q1, 4, Len(q1))
             /\ Len(requests[k]) - Len(q) = Len(requests[1]) - Len(q1)
             /\ SubSeq(requests[k], 1, Len(requests[k]) - Len(q))
                  = SubSeq(requests[1], 1, Len(requests[1]) - Len(q1))
    /\ gat \in {"fetching", "done"} =>
          /\ tasks = [i \in 1..Len(tasks) |-> ServerPage(i - 1)]
          /\ \A i \in 1..Len(tasks) : PageTasks(i - 1) # <<>>
          /\ page_limit >= 0 => Len(tasks) <= page_limit
    /\ gat = "fetching" => page_num = Len(tasks) /\ Len(requests) = page_num + 1
    /\ gat = "done" =>
          /\ result = [kind |-> "return", pages |-> tasks, exc |-> NoReturn]
          /\ PageTasks(Len(tasks)) = <<>> \/ Len(tasks) = page_limit

\* An unbounded run that kept two pages and stopped at the empty third,
\* with filters in the requests.
C5_Witness ==
    /\ gat = "done"
    /\ page_limit = -1
    /\ Len(result.pages) = 2
    /\ PageTasks(2) = <<>>
    /\ "tags" \in DOMAIN kwargs
    /\ Positions(QueryOf(requests[2]), "tags") # {}

\* C6: when a page request fails, get_all_tasks ends with the exception of
\* _get_wrapper as it is, returns none of the pages it had accumulated, and
\* the failed request is its last one; a run that returns saw no failure.
C6_FailurePropagates ==
    /\ gat = "raised" =>
          /\ result.kind = "raise"
          /\ result.pages = <<>>
          /\ resp[Caller].status_code # 200
          /\ result.exc = [kind |-> "ValueError", code |-> resp[Caller].status_code,
                           value |-> NoJson]
          /\ Len(requests) = Len(tasks) + 1
          /\ PageOf(requests[Len(requests)]) = Len(tasks)
    /\ gat = "done" => resp[Caller].status_code = 200

\* The request for page 2 failed after two pages had been accumulated.
C6_Witness ==
    /\ gat = "raised"
    /\ Len(tasks) = 2
    /\ result.exc.code = 404
    /\ result.pages = <<>>

\* C10: whenever the loop condition is about to be evaluated, and when
\* get_all_tasks returns, the page requests made are one more than the
\* pages appended.
C10_OneExtraFetch ==
    /\ gat = "fetching" => Len(requests) = Len(tasks) + 1
    /\ gat = "done" => Len(requests) = Len(result.pages) + 1

\* A run with page_limit = 0 over a non-empty first page: one request, no
\* page kept.
C10_Witness ==
    /\ gat = "done"
    /\ page_limit = 0
    /\ PageTasks(0) # <<>>
    /\ Len(requests) = 1
    /\ result.pages = <<>>

-----------------------------------------------------------------------------
(* _chunkifier applied to the lists of at most MaxLen identifiers, with a  *)
(* size of at most MaxN.                                                    *)

MaxLen == 5

MaxN == 6

TaskIds == {"x", "y", "z"}

Lists == UNION {[1..k -> TaskIds] : k \in 0..MaxLen}

ChunkInit ==
    /\ bucket = [k \in Identities |-> EmptyWindow]
    /\ admitted = EmptyWindow
    /\ pc = [c \in Clients |-> "idle"]
    /\ req = [c \in Clients |-> <<>>]
    /\ resp = [c \in Clients |-> NoResponse]
    /\ ret = [c \in Clients |-> NoReturn]
    /\ gets = [c \in Clients |-> 0]
    /\ server = [i \in Pages |-> 0]
    /\ gat = "none"
    /\ page_limit = -1
    /\ kwargs = NoKwargs
    /\ page_num = 0
    /\ tasks = <<>>
    /\ result = NoResult
    /\ requests = <<>>
    /\ locals = NoLocals
    /\ list_to_split \in Lists
    /\ n = 0
    /\ chunks = <<>>

Chunkify ==
    /\ n = 0
    /\ \E size \in 1..MaxN :
          /\ n' = size
          /\ chunks' = _chunkifier(list_to_split, size)
    /\ UNCHANGED <<transportVars, pagingVars, locals, list_to_split>>

ChunkNext == Chunkify

ChunkSpec == ChunkInit /\ [][ChunkNext]_vars

\* chunks[1] \o chunks[2] \o ...
Flatten(cs) ==
    LET F[i \in 0..Len(cs)] == IF i = 0 THEN <<>> ELSE F[i - 1] \o cs[i]
    IN F[Len(cs)]

\* C9: for a positive size n the chunks of S, concatenated in order, are S;
\* every chunk but the last has exactly n elements, none is empty, and
\* there are ceil(len(S) / n) of them (none for an empty S).
C9_Chunks ==
    n > 0 =>
        /\ Flatten(chunks) = list_to_split
        /\ \A k \in 1..Len(chunks) :
              /\ chunks[k] # <<>>
              /\ Len(chunks[k]) <= n
              /\ k < Len(chunks) => Len(chunks[k]) = n
        /\ Len(chunks) * n >= Len(list_to_split)
        /\ (Len(chunks) - 1) * n < Len(list_to_split) \/ Len(chunks) = 0
        /\ list_to_split = <<>> => chunks = <<>>

\* Five identifiers in chunks of two: two full chunks and a shorter last.
C9_Witness ==
    /\ n = 2
    /\ list_to_split = <<"x", "y", "z", "y", "x">>
    /\ chunks = <<<<"x", "y">>, <<"z", "y">>, <<"x">>>>

=============================================================================
